---- MODULE Spec2Model ----
\* Model of charger/alfenhttp.go: the Alfen HTTP charger client.
\* One client object c, its session mutex c.mu, the memoized getPropertiesG,
\* the goroutine running the constructor, the goroutines calling the exported
\* methods and the goroutine running the shutdown hook.
EXTENDS Integers, FiniteSets, Sequences, TLC

\* ---------------------------------------------------------------- bounds
NumCallers == 2

\* How many times the shutdown hook runs Shutdown.
MaxShutdowns == 2

\* How many times the device drops the session.
MaxExpiries == 1

\* ------------------------------------------------------ program constants
\* time.Second: the clock of the model counts seconds
Second == 1

\* Mutant of RefreshInterval: time.Second is handed to util.Cached.
ShortInterval == Second

\* time.Second*5, the interval handed to util.Cached
RefreshInterval == Second * 5

\* ------------------------------------------------------------- processes
NoProc == 0
Callers == 1..NumCallers
\* the goroutine running NewAlfenHttp
Ctor == NumCallers + 1
\* the goroutine running the hooks registered with shutdown.Register
Hook == NumCallers + 2
Procs == Callers \cup {Ctor, Hook}

\* What the device (or the network) answers to one HTTP request.
Statuses == {"200", "401", "500"}
Outcomes == Statuses \cup {"neterr"}
\* The property lists the device may answer GET /api/prop with.
Payloads == {"props1", "props2"}

VARIABLES
    pc,         \* pc[p]: position of goroutine p
    op,         \* op[p]: the exported method p is executing
    step,       \* step[p]: which write of Phases1p3p / Shutdown p is at
    mu,         \* c.mu: the goroutine holding it, NoProc when free
    http,       \* http[p]: the HTTP request of p that is in flight
    ea,         \* ea[p]: the ensureAuthenticated call p is executing
    got,        \* got[p]: the snapshot or error p holds
    mode,       \* mode[p]: how getPropertiesG serves p (hit, wait, miss)
    newErr,     \* the error NewAlfenHttp returned, "unset" while it runs
    cache,      \* the memoized snapshot of util.Cached and its age in seconds
    inflight,   \* the goroutine refreshing the snapshot, NoProc when none
    lastFailed, \* whether the most recent bulk read of the device failed
    dec,        \* a decoder or facade function applied to a snapshot
    shutdowns,  \* how many times the shutdown hook has run Shutdown
    dev,        \* the device: how it answers and its login session
    last        \* the call that returned in the step just taken

vars == <<pc, op, step, mu, http, ea, got, mode, newErr, cache, inflight,
          lastFailed, dec, shutdowns, dev, last>>

\* ------------------------------------------------------------ records
\* calls, logins: invocations of method() and of login() so far;
\* s1, lg, s2: outcome of the first method(), of login(), of the retry;
\* resp, err, closed: the returned response, error, and whether the
\* returned response's body has been closed.
NoEA == [calls |-> 0, logins |-> 0, s1 |-> "none", lg |-> "none",
         s2 |-> "none", resp |-> "nil", err |-> "unset", closed |-> FALSE]
\* val: the snapshot; err: the error; resp: the status the bulk read ended on
NoGot == [val |-> "none", err |-> "unset", resp |-> "none"]
NoCache == [has |-> FALSE, val |-> "none", age |-> 0]
\* ea.err # "unset": an ensureAuthenticated call of p returned in this step;
\* res # "unset": the exported method op of p returned res in this step;
\* lo: the error of the logout of Shutdown; n: which run of Shutdown it was.
NoLast == [p |-> NoProc, op |-> "none", step |-> 0, ea |-> NoEA,
           got |-> NoGot, mode |-> "none", res |-> "unset", lo |-> "unset",
           n |-> 0]

\* No decoder or facade function is being applied on its own.
NoDec == [fn |-> "none"]

\* A device that may answer any request in any way: nothing is known of
\* its session.
AnyDevice == [kind |-> "any", valid |-> TRUE, expiries |-> 0, logins |-> 0]

\* A device that keeps a login session: it answers 200 while the session
\* is valid and 401 once it expired, and accepts every login.
SessionDevice ==
    [kind |-> "session", valid |-> TRUE, expiries |-> 0, logins |-> 0]

\* The answers the device can give to a property or info request.
DeviceAnswers ==
    IF dev.kind = "any" THEN Outcomes
    ELSE IF dev.valid THEN {"200"} ELSE {"401"}

\* The answers the device can give to a login or a logout.
SessionAnswers == IF dev.kind = "any" THEN Outcomes ELSE {"200"}

\* Whether a response body can be read to its end.
BodyReads == IF dev.kind = "any" THEN BOOLEAN ELSE {TRUE}

\* The device sees one more login request.
LoginSeen(d) ==
    IF d.kind = "any" THEN d ELSE [d EXCEPT !.logins = @ + 1]

\* The session of the device after it answered s to a login or a logout.
SessionAfter(d, req, s) ==
    IF d.kind = "any" \/ s # "200" THEN d
    ELSE [d EXCEPT !.valid = (req = "login")]

\* NewAlfenHttp has built c, set c.getPropertiesG and registered c.Shutdown;
\* it is about to call c.login().
Init ==
    /\ pc = [p \in Procs |-> IF p = Ctor THEN "lg_send" ELSE "idle"]
    /\ op = [p \in Procs |-> IF p = Ctor THEN "New" ELSE "none"]
    /\ step = [p \in Procs |-> 0]
    /\ mu = NoProc
    /\ http = [p \in Procs |-> "none"]
    /\ ea = [p \in Procs |-> NoEA]
    /\ got = [p \in Procs |-> NoGot]
    /\ mode = [p \in Procs |-> "none"]
    /\ newErr = "unset"
    /\ cache = NoCache
    /\ inflight = NoProc
    /\ lastFailed = FALSE
    /\ dec = NoDec
    /\ shutdowns = 0
    /\ dev = AnyDevice
    /\ last = NoLast

\* NewAlfenHttp returned (c, nil): only then do callers hold the client.
Constructed == newErr = "nil"

\* ------------------------------------------------------------- constants
available == 4
cableConnected == 7
evConnected == 8
preparingCharging == 9
waitVehicleCharging == 10
chargingNormal == 11
finishWaitVehicle == 16
finishWaitDisconnect == 17
errorCharging == 21
errorTooManyRestarts == 26
inoperative == 34
loadBalancingForcedOff == 36

maxStationCurrent == "2062_0"
activePowerTotal == "2221_16"
state == "2501_2"
loadBalancingEnablePhaseSwitching == "2185_0"
installationMaxAllowedPhases == "2189_0"

statusOn == "1"

switchOffCurrent == 5
maxCurrent == 16

\* The decimal digits as fmt.Sprint prints them.
DigitChar == <<"0", "1", "2", "3", "4", "5", "6", "7", "8", "9">>

\* fmt.Sprint of a non-negative integer: its decimal form.
RECURSIVE Sprint(_)
Sprint(n) ==
    IF n < 10 THEN DigitChar[n + 1]
    ELSE Sprint(n \div 10) \o DigitChar[(n % 10) + 1]

\* ---------------------------------------------------------------- writes
\* The body setProperty posts for property id and value.
WriteOf(id, value) == [id |-> id, value |-> value]

\* The POST /api/prop request that carries the write w.
PostOf(w) == "POST " \o w.id \o "=" \o w.value

\* A value passed by the caller of an exported method, not told apart.
CallerValue == "?"

\* MaxCurrent(current)
MaxCurrent(current) == WriteOf(maxStationCurrent, Sprint(current))

\* The write number st of Phases1p3p(phases): the phase-switching enable
\* property first, the allowed phase count second.
PhasesWrite(st, phases) ==
    IF st = 1 THEN WriteOf(loadBalancingEnablePhaseSwitching, statusOn)
    ELSE WriteOf(installationMaxAllowedPhases, phases)

\* The write number st of Shutdown: Phases1p3p(3), then MaxCurrent(16).
ShutdownWrite(st) ==
    IF st < 3 THEN PhasesWrite(st, Sprint(3)) ELSE MaxCurrent(maxCurrent)

\* The current Enable(enable) hands to MaxCurrent.
EnableCurrent(enable) == IF enable THEN maxCurrent ELSE switchOffCurrent

\* Enable(enable): the write it makes
Enable(enable) == MaxCurrent(EnableCurrent(enable))

\* The request the method closure of each operation issues.
ActionRequest(p) ==
    CASE op[p] = "getProperty" -> "GET prop"
      [] op[p] = "getInfo" -> "GET info"
      [] op[p] = "Phases1p3p" -> PostOf(PhasesWrite(step[p], CallerValue))
      [] op[p] = "Shutdown" -> PostOf(ShutdownWrite(step[p]))
      [] OTHER -> PostOf(WriteOf(maxStationCurrent, CallerValue))

\* The exported method of p returns to its caller; l describes the return.
Finish(p, l) ==
    /\ pc' = [pc EXCEPT ![p] = "idle"]
    /\ op' = [op EXCEPT ![p] = "none"]
    /\ step' = [step EXCEPT ![p] = 0]
    /\ ea' = [ea EXCEPT ![p] = NoEA]
    /\ got' = [got EXCEPT ![p] = NoGot]
    /\ mode' = [mode EXCEPT ![p] = "none"]
    /\ last' = l

\* The exported method of p goes on to its write number st.
Continue(p, st, where, l) ==
    /\ pc' = [pc EXCEPT ![p] = where]
    /\ step' = [step EXCEPT ![p] = st]
    /\ ea' = [ea EXCEPT ![p] = NoEA]
    /\ last' = l
    /\ UNCHANGED <<op, got, mode>>

\* ----------------------------------------------------------- getProperties
\* Mutant of GetPropertiesResult: the status of the response is not tested.
GetPropertiesIgnoreStatus(e, bodyOk) ==
    IF e.err # "nil" THEN e.err
    ELSE IF ~bodyOk THEN "body"
    ELSE "nil"

\* The error getProperties returns after ensureAuthenticated returned e;
\* bodyOk is whether io.ReadAll and json.Unmarshal of the body succeed.
GetPropertiesResult(e, bodyOk) ==
    IF e.err # "nil" THEN e.err
    ELSE IF e.resp # "200" THEN "status"
    ELSE IF ~bodyOk THEN "body"
    ELSE "nil"

\* ---------------------------------------------------------------- getInfo
\* The error getInfo returns after ensureAuthenticated returned e.
GetInfoResult(e, bodyOk) ==
    IF e.err # "nil" THEN e.err
    ELSE IF e.resp # "200" THEN "status"
    ELSE IF ~bodyOk THEN "body"
    ELSE "nil"

\* ------------------------------------------------------------ setProperty
\* The error setProperty returns after ensureAuthenticated returned e:
\* the status of the response is not looked at.
SetPropertyResult(e) == IF e.err # "nil" THEN e.err ELSE "nil"

\* ------------------------------------------------------------- Phases1p3p
\* Mutant of PhasesContinues: the error of the first write is not tested.
PhasesAlwaysContinues(err) == TRUE

\* Whether Phases1p3p goes on to its second write after the first
\* returned err.
PhasesContinues(err) == err = "nil"

\* --------------------------------------------------------------- Shutdown
\* Mutant of ShutdownNext: a failed write ends the reset, the logout is
\* all that follows.
ShutdownSkipsOnError(st, err) ==
    IF err # "nil" THEN 4 ELSE IF st < 3 THEN st + 1 ELSE 4

\* The step of Shutdown that follows the write of step st returning err:
\* 1, 2 are the writes of c.Phases1p3p(3), 3 is c.MaxCurrent(maxCurrent),
\* 4 is c.logout(). No returned error is looked at.
ShutdownNext(st, err) ==
    IF st = 1 /\ PhasesContinues(err) THEN 2
    ELSE IF st \in {1, 2} THEN 3
    ELSE 4

\* ensureAuthenticated returns e to the method that called it, which runs
\* on to its own return or to its next call.
EAReturn(p, e) ==
    LET l == [NoLast EXCEPT !.p = p, !.op = op[p], !.step = step[p],
                            !.ea = e, !.mode = mode[p]]
        werr == SetPropertyResult(e)
    IN
    CASE op[p] = "setProperty" ->
            Finish(p, [l EXCEPT !.res = werr])
      [] op[p] = "getInfo" ->
            \E bodyOk \in BodyReads :
                Finish(p, [l EXCEPT !.res = GetInfoResult(e, bodyOk)])
      [] op[p] = "Phases1p3p" ->
            IF step[p] = 1 /\ PhasesContinues(werr)
            THEN Continue(p, 2, "ea_lock", l)
            ELSE Finish(p, [l EXCEPT !.res = werr])
      [] op[p] = "Shutdown" ->
            LET nxt == ShutdownNext(step[p], werr) IN
            Continue(p, nxt, IF nxt = 4 THEN "lo_send" ELSE "ea_lock", l)
      [] op[p] = "getProperty" ->
            \E bodyOk \in BodyReads, v \in Payloads :
                LET err == GetPropertiesResult(e, bodyOk) IN
                /\ got' = [got EXCEPT ![p] =
                             [val |-> IF err = "nil" THEN v ELSE "none",
                              err |-> err, resp |-> e.resp]]
                /\ pc' = [pc EXCEPT ![p] = "gp_ret"]
                /\ ea' = [ea EXCEPT ![p] = NoEA]
                /\ last' = l
                /\ UNCHANGED <<op, step, mode>>

\* ------------------------------------------------- ensureAuthenticated
\* Mutant of LockFree: the mutex is not honoured.
LockIgnored == TRUE

\* c.mu.Lock() can be taken
LockFree == mu = NoProc

\* resp.StatusCode == 401
IsUnauthorized(s) == s = "401"

\* The value ensureAuthenticated returns for a response: the deferred
\* resp.Body.Close() calls have run when the caller receives it.
ReturnResp(e, s) == [e EXCEPT !.resp = s, !.err = "nil", !.closed = TRUE]

\* return nil, err
ReturnErr(e, kind) == [e EXCEPT !.resp = "nil", !.err = kind]

\* Mutant of ReturnOf: the retry's result is shadowed and the first
\* response is what comes back.
ReturnFirst(e, s) ==
    IF e.s1 = "neterr" THEN ReturnErr(e, "transport") ELSE ReturnResp(e, e.s1)

\* Mutant of Unlocked: the mutex is released on the path that returns a
\* response only.
UnlockedOnSuccess(e) == IF e.err = "nil" THEN NoProc ELSE mu

\* defer c.mu.Unlock(): c.mu after ensureAuthenticated returned e, whatever
\* e is.
Unlocked(e) == NoProc

\* What ensureAuthenticated returns when method() answered s last.
ReturnOf(e, s) ==
    IF s = "neterr" THEN ReturnErr(e, "transport") ELSE ReturnResp(e, s)

EALock(p) ==
    /\ pc[p] = "ea_lock"
    /\ LockFree
    /\ mu' = p
    /\ pc' = [pc EXCEPT ![p] = "ea_req1"]
    /\ last' = NoLast
    /\ UNCHANGED <<op, step, http, ea, got, mode, newErr, cache, inflight,
                   lastFailed, dec,
                   shutdowns, dev>>

\* resp, err := method(): the request leaves
EASend1(p) ==
    /\ pc[p] = "ea_req1"
    /\ http' = [http EXCEPT ![p] = ActionRequest(p)]
    /\ ea' = [ea EXCEPT ![p].calls = @ + 1]
    /\ pc' = [pc EXCEPT ![p] = "ea_wait1"]
    /\ last' = NoLast
    /\ UNCHANGED <<op, step, mu, got, mode, newErr, cache, inflight,
                   lastFailed, dec,
                   shutdowns, dev>>

\* Mutant of AfterFirst: a transport error is treated like a lost session.
AfterFirstRetryOnError(s) ==
    IF s = "neterr" \/ IsUnauthorized(s) THEN "lg_send" ELSE "ea_ret"

\* Where ensureAuthenticated goes after the first response.
AfterFirst(s) ==
    IF s = "neterr" THEN "ea_ret"
    ELSE IF IsUnauthorized(s) THEN "lg_send"
    ELSE "ea_ret"

\* method() returned; the 401 test
EARecv1(p) ==
    /\ pc[p] = "ea_wait1"
    /\ http' = [http EXCEPT ![p] = "none"]
    /\ \E s \in DeviceAnswers :
        LET e == [ea[p] EXCEPT !.s1 = s] IN
        IF AfterFirst(s) = "ea_ret"
        THEN /\ mu' = Unlocked(ReturnOf(e, s))
             /\ EAReturn(p, ReturnOf(e, s))
        ELSE /\ mu' = mu
             /\ pc' = [pc EXCEPT ![p] = AfterFirst(s)]
             /\ ea' = [ea EXCEPT ![p] = e]
             /\ last' = NoLast
             /\ UNCHANGED <<op, step, got, mode>>
    /\ UNCHANGED <<newErr, cache, inflight, lastFailed, dec,
                   shutdowns, dev>>

\* ----------------------------------------------------------------- login
\* The error login() returns for the device's answer; readOk is whether
\* io.ReadAll of the body succeeds.
LoginResult(s, readOk) ==
    IF s = "neterr" THEN "login_transport"
    ELSE IF s # "200" THEN "login_status"
    ELSE IF ~readOk THEN "login_read"
    ELSE "nil"

\* c.Post(c.uri+"/api/login", ...)
LoginSend(p) ==
    /\ pc[p] = "lg_send"
    /\ http' = [http EXCEPT ![p] = "login"]
    /\ ea' = [ea EXCEPT ![p].logins = @ + 1]
    /\ pc' = [pc EXCEPT ![p] = "lg_wait"]
    /\ dev' = LoginSeen(dev)
    /\ last' = NoLast
    /\ UNCHANGED <<op, step, mu, got, mode, newErr, cache, inflight,
                   lastFailed, dec, shutdowns>>

\* Mutant of AfterLogin: the error of login() is dropped.
AfterLoginIgnoreErr(err) == "ea_req2"

\* Where ensureAuthenticated goes after login() returned err.
AfterLogin(err) == IF err # "nil" THEN "ea_ret" ELSE "ea_req2"

\* login() returns, to NewAlfenHttp or to ensureAuthenticated
LoginRecv(p) ==
    /\ pc[p] = "lg_wait"
    /\ http' = [http EXCEPT ![p] = "none"]
    /\ \E s \in SessionAnswers, readOk \in BodyReads :
        LET err == LoginResult(s, readOk)
            e == [ea[p] EXCEPT !.lg = err] IN
        /\ dev' = SessionAfter(dev, "login", s)
        /\ IF op[p] = "New"
           THEN /\ newErr' = err
                /\ pc' = [pc EXCEPT ![p] = "done"]
                /\ ea' = [ea EXCEPT ![p] = NoEA]
                /\ last' = [NoLast EXCEPT !.p = p, !.op = "New",
                                          !.res = err]
                /\ UNCHANGED <<op, step, mu, got, mode>>
           ELSE /\ newErr' = newErr
                /\ IF AfterLogin(err) = "ea_ret"
                   THEN /\ mu' = Unlocked(ReturnErr(e, err))
                        /\ EAReturn(p, ReturnErr(e, err))
                   ELSE /\ mu' = mu
                        /\ pc' = [pc EXCEPT ![p] = AfterLogin(err)]
                        /\ ea' = [ea EXCEPT ![p] = e]
                        /\ last' = NoLast
                        /\ UNCHANGED <<op, step, got, mode>>
    /\ UNCHANGED <<cache, inflight, lastFailed, dec, shutdowns>>

\* resp, err = method(): the retried request leaves
EASend2(p) ==
    /\ pc[p] = "ea_req2"
    /\ http' = [http EXCEPT ![p] = ActionRequest(p)]
    /\ ea' = [ea EXCEPT ![p].calls = @ + 1]
    /\ pc' = [pc EXCEPT ![p] = "ea_wait2"]
    /\ last' = NoLast
    /\ UNCHANGED <<op, step, mu, got, mode, newErr, cache, inflight,
                   lastFailed, dec,
                   shutdowns, dev>>

\* Mutant of AfterSecond: a 401 on the retry logs in again.
AfterSecondRetry(s) == IF IsUnauthorized(s) THEN "lg_send" ELSE "ea_ret"

\* Where ensureAuthenticated goes after the retried response: the status
\* is not tested again.
AfterSecond(s) == "ea_ret"

\* the retried method() returned
EARecv2(p) ==
    /\ pc[p] = "ea_wait2"
    /\ http' = [http EXCEPT ![p] = "none"]
    /\ \E s \in DeviceAnswers :
        LET e == [ea[p] EXCEPT !.s2 = s] IN
        IF AfterSecond(s) = "ea_ret"
        THEN /\ mu' = Unlocked(ReturnOf(e, s))
             /\ EAReturn(p, ReturnOf(e, s))
        ELSE /\ mu' = mu
             /\ pc' = [pc EXCEPT ![p] = AfterSecond(s)]
             /\ ea' = [ea EXCEPT ![p] = e]
             /\ last' = NoLast
             /\ UNCHANGED <<op, step, got, mode>>
    /\ UNCHANGED <<newErr, cache, inflight, lastFailed, dec,
                   shutdowns, dev>>

\* --------------------------------------------------------- getPropertiesG
\* util.Cached(c.getProperties, 5s): the memoized snapshot is served while
\* the last successful refresh is younger than the interval.
CacheFresh == cache.has /\ cache.age < RefreshInterval

\* What a completed refresh leaves memoized: a failure is not stored.
CacheStore(r) ==
    IF r.err = "nil"
    THEN [has |-> TRUE, val |-> r.val, age |-> 0]
    ELSE cache

\* Mutant of SnapshotCall: getProperty calls c.getProperties() itself.
DirectCall == "ea_lock"

\* props, err := c.getPropertiesG() is how getProperty obtains the snapshot
SnapshotCall == "c_enter"

\* exported getters (Status, Enabled, CurrentPower, ...) -> getProperty(id)
GetPropertyStart(p) ==
    /\ p \in Callers
    /\ pc[p] = "idle"
    /\ Constructed
    /\ op' = [op EXCEPT ![p] = "getProperty"]
    /\ pc' = [pc EXCEPT ![p] = SnapshotCall]
    /\ mode' = [mode EXCEPT ![p] =
                  IF SnapshotCall = "c_enter" THEN mode[p] ELSE "miss"]
    /\ last' = NoLast
    /\ UNCHANGED <<step, mu, http, ea, got, newErr, cache, inflight,
                   lastFailed, dec,
                   shutdowns, dev>>

\* getPropertiesG(): serve the memoized snapshot, join the refresh that is
\* in progress, or start the refresh
CacheEnter(p) ==
    /\ pc[p] = "c_enter"
    /\ IF CacheFresh
       THEN /\ mode' = [mode EXCEPT ![p] = "hit"]
            /\ got' = [got EXCEPT ![p] =
                         [val |-> cache.val, err |-> "nil", resp |-> "none"]]
            /\ pc' = [pc EXCEPT ![p] = "gp_scan"]
            /\ UNCHANGED inflight
       ELSE IF inflight # NoProc
       THEN /\ mode' = [mode EXCEPT ![p] = "wait"]
            /\ pc' = [pc EXCEPT ![p] = "c_wait"]
            /\ UNCHANGED <<got, inflight>>
       ELSE /\ mode' = [mode EXCEPT ![p] = "miss"]
            /\ inflight' = p
            /\ pc' = [pc EXCEPT ![p] = "ea_lock"]
            /\ UNCHANGED got
    /\ last' = NoLast
    /\ UNCHANGED <<op, step, mu, http, ea, newErr, cache, lastFailed, dec,
                   shutdowns, dev>>

\* getProperties has returned got[p]: the refresh completes, its result is
\* memoized and every waiter is released with it
CacheComplete(p) ==
    /\ pc[p] = "gp_ret"
    /\ LET r == got[p]
           W == IF inflight = p THEN {q \in Procs : pc[q] = "c_wait"} ELSE {}
       IN
        /\ cache' = IF inflight = p THEN CacheStore(r) ELSE cache
        /\ inflight' = IF inflight = p THEN NoProc ELSE inflight
        /\ lastFailed' = ~(r.resp = "200" /\ r.err = "nil")
        /\ got' = [q \in Procs |-> IF q \in W THEN r ELSE got[q]]
        /\ pc' = [q \in Procs |->
                     IF q = p \/ q \in W THEN "gp_scan" ELSE pc[q]]
    /\ last' = NoLast
    /\ UNCHANGED <<op, step, mu, http, ea, mode, newErr, dec,
                   shutdowns, dev>>

\* The error getProperty returns: the snapshot's error, or not-found when
\* no entry of the snapshot carries the id.
GetPropertyResult(g, found) ==
    IF g.err # "nil" THEN g.err
    ELSE IF ~found THEN "notfound"
    ELSE "nil"

\* getProperty: the scan of props.Properties, and the return
GetPropertyScan(p) ==
    /\ pc[p] = "gp_scan"
    /\ \E found \in BOOLEAN :
        Finish(p, [NoLast EXCEPT !.p = p, !.op = op[p], !.got = got[p],
                                 !.mode = mode[p],
                                 !.res = GetPropertyResult(got[p], found)])
    /\ UNCHANGED <<mu, http, newErr, cache, inflight, lastFailed, dec,
                   shutdowns, dev>>

\* ------------------------------------------------------- exported methods
\* Diagnose -> getInfo
GetInfoStart(p) ==
    /\ p \in Callers
    /\ pc[p] = "idle"
    /\ Constructed
    /\ op' = [op EXCEPT ![p] = "getInfo"]
    /\ pc' = [pc EXCEPT ![p] = "ea_lock"]
    /\ last' = NoLast
    /\ UNCHANGED <<step, mu, http, ea, got, mode, newErr, cache, inflight,
                   lastFailed, dec,
                   shutdowns, dev>>

\* Mutant of WriteCall: the write goes through the memoized bulk read.
WriteThroughSnapshot == "c_enter"

\* Where setProperty goes first: c.ensureAuthenticated, not the memoized
\* bulk read.
WriteCall == "ea_lock"

\* MaxCurrent / Enable -> setProperty(maxStationCurrent, ...)
SetPropertyStart(p) ==
    /\ p \in Callers
    /\ pc[p] = "idle"
    /\ Constructed
    /\ op' = [op EXCEPT ![p] = "setProperty"]
    /\ pc' = [pc EXCEPT ![p] = WriteCall]
    /\ last' = NoLast
    /\ UNCHANGED <<step, mu, http, ea, got, mode, newErr, cache, inflight,
                   lastFailed, dec,
                   shutdowns, dev>>

\* step 1: setProperty(loadBalancingEnablePhaseSwitching, statusOn)
\* step 2: setProperty(installationMaxAllowedPhases, phases)
Phases1p3pStart(p) ==
    /\ p \in Callers
    /\ pc[p] = "idle"
    /\ Constructed
    /\ op' = [op EXCEPT ![p] = "Phases1p3p"]
    /\ step' = [step EXCEPT ![p] = 1]
    /\ pc' = [pc EXCEPT ![p] = "ea_lock"]
    /\ last' = NoLast
    /\ UNCHANGED <<mu, http, ea, got, mode, newErr, cache, inflight,
                   lastFailed, dec,
                   shutdowns, dev>>

\* The hook registered by shutdown.Register(c.Shutdown) runs, whether or
\* not the constructor's login has returned.
ShutdownStart(p) ==
    /\ p = Hook
    /\ pc[p] = "idle"
    /\ shutdowns < MaxShutdowns
    /\ shutdowns' = shutdowns + 1
    /\ op' = [op EXCEPT ![p] = "Shutdown"]
    /\ step' = [step EXCEPT ![p] = 1]
    /\ pc' = [pc EXCEPT ![p] = "ea_lock"]
    /\ last' = NoLast
    /\ UNCHANGED <<mu, http, ea, got, mode, newErr, cache, inflight,
                   lastFailed, dec, dev>>

\* ----------------------------------------------------------------- logout
\* The error logout() returns for the device's answer.
LogoutResult(s, readOk) ==
    IF s = "neterr" THEN "logout_transport"
    ELSE IF s # "200" THEN "logout_status"
    ELSE IF ~readOk THEN "logout_read"
    ELSE "nil"

\* c.Post(c.uri+"/api/logout", ...): c.mu is not taken
LogoutSend(p) ==
    /\ pc[p] = "lo_send"
    /\ http' = [http EXCEPT ![p] = "logout"]
    /\ pc' = [pc EXCEPT ![p] = "lo_wait"]
    /\ last' = NoLast
    /\ UNCHANGED <<op, step, mu, ea, got, mode, newErr, cache, inflight,
                   lastFailed, dec,
                   shutdowns, dev>>

\* logout() returns to Shutdown, which drops the error and returns
LogoutRecv(p) ==
    /\ pc[p] = "lo_wait"
    /\ http' = [http EXCEPT ![p] = "none"]
    /\ \E s \in SessionAnswers, readOk \in BodyReads :
        /\ dev' = SessionAfter(dev, "logout", s)
        /\ Finish(p, [NoLast EXCEPT !.p = p, !.op = op[p],
                                    !.step = step[p], !.n = shutdowns,
                                    !.res = "void",
                                    !.lo = LogoutResult(s, readOk)])
    /\ UNCHANGED <<mu, newErr, cache, inflight, lastFailed, dec,
                   shutdowns>>

\* ------------------------------------------------------------ environment
\* One second passes: the memoized snapshot ages. Ages beyond the
\* interval are not told apart.
Tick ==
    /\ cache.has
    /\ cache.age < RefreshInterval
    /\ cache' = [cache EXCEPT !.age = @ + 1]
    /\ last' = NoLast
    /\ UNCHANGED <<pc, op, step, mu, http, ea, got, mode, newErr, inflight,
                   lastFailed, dec,
                   shutdowns, dev>>

\* The steps of a call of ensureAuthenticated, of login and of logout.
SessionStep(p) ==
    \/ EALock(p)
    \/ EASend1(p)
    \/ EARecv1(p)
    \/ LoginSend(p)
    \/ LoginRecv(p)
    \/ EASend2(p)
    \/ EARecv2(p)
    \/ LogoutSend(p)
    \/ LogoutRecv(p)

\* The steps of the memoized bulk read.
CacheStep(p) ==
    \/ GetPropertyStart(p)
    \/ CacheEnter(p)
    \/ CacheComplete(p)
    \/ GetPropertyScan(p)

\* The calls that go to ensureAuthenticated without the memoized read.
DirectStart(p) ==
    \/ GetInfoStart(p)
    \/ SetPropertyStart(p)
    \/ Phases1p3pStart(p)
    \/ ShutdownStart(p)

\* The whole client: constructor, shutdown hook and callers of every method.
Next ==
    \/ Tick
    \/ \E p \in Procs : CacheStep(p) \/ DirectStart(p) \/ SessionStep(p)

Spec == Init /\ [][Next]_vars

\* The session layer alone: constructor, shutdown hook and callers of the
\* writes and of getInfo.
NextSession == \E p \in Procs : DirectStart(p) \/ SessionStep(p)

SpecSession == Init /\ [][NextSession]_vars

\* The read path alone, from the state in which NewAlfenHttp has returned
\* (c, nil): callers of the getters, and the clock.
InitCache ==
    /\ pc = [p \in Procs |-> IF p = Ctor THEN "done" ELSE "idle"]
    /\ op = [p \in Procs |-> IF p = Ctor THEN "New" ELSE "none"]
    /\ step = [p \in Procs |-> 0]
    /\ mu = NoProc
    /\ http = [p \in Procs |-> "none"]
    /\ ea = [p \in Procs |-> NoEA]
    /\ got = [p \in Procs |-> NoGot]
    /\ mode = [p \in Procs |-> "none"]
    /\ newErr = "nil"
    /\ cache = NoCache
    /\ inflight = NoProc
    /\ lastFailed = FALSE
    /\ dec = NoDec
    /\ shutdowns = 0
    /\ dev = AnyDevice
    /\ last = NoLast

ReadStep(p) ==
    \/ EALock(p)
    \/ EASend1(p)
    \/ EARecv1(p)
    \/ LoginSend(p)
    \/ LoginRecv(p)
    \/ EASend2(p)
    \/ EARecv2(p)

NextCache ==
    \/ Tick
    \/ \E p \in Procs : CacheStep(p) \/ ReadStep(p)

SpecCache == InitCache /\ [][NextCache]_vars

\* The read path together with property writes: every caller reads, and
\* one of them writes as well.
NextReadWrite ==
    \/ Tick
    \/ SetPropertyStart(NumCallers)
    \/ \E p \in Procs : CacheStep(p) \/ ReadStep(p)

SpecReadWrite == InitCache /\ [][NextReadWrite]_vars

\* A session that expires: callers of the reads and of a write against a
\* device that keeps a login session, which may expire.
InitExpiry ==
    /\ pc = [p \in Procs |-> IF p = Ctor THEN "done" ELSE "idle"]
    /\ op = [p \in Procs |-> IF p = Ctor THEN "New" ELSE "none"]
    /\ step = [p \in Procs |-> 0]
    /\ mu = NoProc
    /\ http = [p \in Procs |-> "none"]
    /\ ea = [p \in Procs |-> NoEA]
    /\ got = [p \in Procs |-> NoGot]
    /\ mode = [p \in Procs |-> "none"]
    /\ newErr = "nil"
    /\ cache = NoCache
    /\ inflight = NoProc
    /\ lastFailed = FALSE
    /\ dec = NoDec
    /\ shutdowns = 0
    /\ dev = SessionDevice
    /\ last = NoLast

\* The device drops the session.
Expire ==
    /\ dev.kind = "session"
    /\ dev.valid
    /\ dev.expiries < MaxExpiries
    /\ dev' = [dev EXCEPT !.valid = FALSE, !.expiries = @ + 1]
    /\ last' = NoLast
    /\ UNCHANGED <<pc, op, step, mu, http, ea, got, mode, newErr, cache,
                   inflight, lastFailed, dec, shutdowns>>

NextExpiry ==
    \/ Tick
    \/ Expire
    \/ \E p \in Procs :
        \/ CacheStep(p)
        \/ GetInfoStart(p)
        \/ SetPropertyStart(p)
        \/ ReadStep(p)

SpecExpiry == InitExpiry /\ [][NextExpiry]_vars

\* Reads, writes and the shutdown hook together, under a fair scheduler:
\* a goroutine inside a call keeps running, every request is answered, and
\* a goroutine waiting for c.mu gets it (sync.Mutex hands the lock to a
\* waiter that has waited long). Whether and when a call is made is left
\* open. Every caller reads, one of them writes as well, and the hook runs
\* Shutdown once; the snapshot does not age.
Proceed(p) ==
    \/ CacheEnter(p)
    \/ CacheComplete(p)
    \/ GetPropertyScan(p)
    \/ EASend1(p)
    \/ EARecv1(p)
    \/ LoginSend(p)
    \/ LoginRecv(p)
    \/ EASend2(p)
    \/ EARecv2(p)
    \/ LogoutSend(p)
    \/ LogoutRecv(p)

\* The goroutines that make calls.
Clients == Callers \cup {Hook}

NextLive ==
    \/ SetPropertyStart(NumCallers)
    \/ \E p \in Clients :
        \/ GetPropertyStart(p)
        \/ shutdowns = 0 /\ ShutdownStart(p)
        \/ EALock(p)
        \/ Proceed(p)

Fairness ==
    \A p \in Clients : WF_vars(Proceed(p)) /\ SF_vars(EALock(p))

SpecLive == InitCache /\ [][NextLive]_vars /\ Fairness

\* ==================================================== decoder and facade
\* The functions that decode a snapshot or build a write, applied on their
\* own to inputs drawn from bounded sets.

\* ---------------------------------------------------------------- bounds
\* The largest state code the device reports in the inputs.
MaxCode == 40

\* The largest current limit, in ampere, the device reports in the inputs.
MaxAmps == 20

\* The longest snapshot whose entries are drawn freely.
MaxProps == 3

\* ---------------------------------------------------------------- errors
Err(kind, id, val) == [kind |-> kind, id |-> id, val |-> val]

\* nil
NoErr == Err("nil", "", 0)

\* The error of a failed bulk read, as getPropertiesG returns it.
FetchErr == Err("getProperties", "", 0)

\* The number the device reads from a decimal string.
Atoi(s) == CHOOSE n \in 0..MaxAmps : Sprint(n) = s

\* ----------------------------------------------------------- getProperty
\* Mutant of Scan: a later entry with the id replaces an earlier one.
RECURSIVE ScanLast(_, _, _)
ScanLast(props, id, i) ==
    IF i > Len(props) THEN [val |-> "", err |-> Err("notfound", id, 0)]
    ELSE LET rest == ScanLast(props, id, i + 1) IN
         IF rest.err = NoErr THEN rest
         ELSE IF props[i].id = id THEN [val |-> props[i].value, err |-> NoErr]
         ELSE rest

\* for _, prop := range props.Properties from entry i on: the first entry
\* with prop.Id == id is returned; past the end, the error naming id.
RECURSIVE Scan(_, _, _)
Scan(props, id, i) ==
    IF i > Len(props) THEN [val |-> "", err |-> Err("notfound", id, 0)]
    ELSE IF props[i].id = id THEN [val |-> props[i].value, err |-> NoErr]
    ELSE Scan(props, id, i + 1)

\* getProperty(id) on the snapshot props and error perr that
\* c.getPropertiesG() returned.
GetProperty(props, perr, id) ==
    IF perr # NoErr THEN [val |-> "", err |-> perr]
    ELSE Scan(props, id, 1)

\* ---------------------------------------------------------------- Status
\* Mutant of StatusOf: a code outside the table counts as connected.
StatusOfLenient(value) ==
    IF value = available THEN [val |-> "A", err |-> NoErr]
    ELSE IF value = chargingNormal THEN [val |-> "C", err |-> NoErr]
    ELSE IF value \in {errorCharging, errorTooManyRestarts, inoperative}
    THEN [val |-> "E", err |-> NoErr]
    ELSE [val |-> "B", err |-> NoErr]

\* switch value.(float64) of Status
StatusOf(value) ==
    IF value = available THEN [val |-> "A", err |-> NoErr]
    ELSE IF value \in {cableConnected, evConnected, preparingCharging,
                       waitVehicleCharging, finishWaitVehicle,
                       finishWaitDisconnect, loadBalancingForcedOff}
    THEN [val |-> "B", err |-> NoErr]
    ELSE IF value = chargingNormal THEN [val |-> "C", err |-> NoErr]
    ELSE IF value \in {errorCharging, errorTooManyRestarts, inoperative}
    THEN [val |-> "E", err |-> NoErr]
    ELSE [val |-> "None", err |-> Err("unhandled", "", value)]

\* Status(): status stays StatusNone when getProperty failed
Status(props, perr) ==
    LET r == GetProperty(props, perr, state) IN
    IF r.err = NoErr THEN StatusOf(r.val)
    ELSE [val |-> "None", err |-> r.err]

\* --------------------------------------------------------------- Enabled
\* Mutant of AboveSwitchOff: the cutoff itself counts as enabled.
AtOrAboveSwitchOff(amps) == amps >= switchOffCurrent

\* maxCurrent.(float64) > float64(switchOffCurrent)
AboveSwitchOff(amps) == amps > switchOffCurrent

\* Enabled()
Enabled(props, perr) ==
    LET r == GetProperty(props, perr, maxStationCurrent) IN
    IF r.err # NoErr THEN [val |-> FALSE, err |-> r.err]
    ELSE [val |-> AboveSwitchOff(r.val), err |-> NoErr]

\* ---------------------------------------------------------------- inputs
SeqsUpTo(S, n) == UNION {[1..k -> S] : k \in 0..n}

\* An entry of the snapshot: {"id": ..., "value": ...}
Entry(id, value) == [id |-> id, value |-> value]

\* Snapshots that report the state code, or leave it out, after any other
\* property.
StatusSnapshots ==
    {pre \o suf :
        pre \in {<<>>, <<Entry(maxStationCurrent, maxCurrent)>>},
        suf \in {<<>>} \cup {<<Entry(state, c)>> : c \in 0..MaxCode}}

\* Snapshots that report the current limit, or leave it out.
CurrentSnapshots ==
    {pre \o suf :
        pre \in {<<>>, <<Entry(state, available)>>},
        suf \in {<<>>} \cup
                {<<Entry(maxStationCurrent, a)>> : a \in 0..MaxAmps}}

\* Snapshots of a few entries drawn freely, ids repeated or missing.
FreeSnapshots ==
    SeqsUpTo([id : {state, maxStationCurrent},
              value : {available, maxCurrent}], MaxProps)

Snapshots == StatusSnapshots \cup CurrentSnapshots \cup FreeSnapshots

\* The ids getProperty is asked for.
ReadIds == {state, maxStationCurrent, activePowerTotal}

NoOut == [val |-> "", err |-> NoErr]

\* What getPropertiesG hands to the decoder: a snapshot and an error.
DecInputs ==
    [fn : {"input"}, props : Snapshots, perr : {NoErr, FetchErr},
     id : {""}, enable : {FALSE}, out : {NoOut}]

\* The client is constructed and idle; a snapshot is at hand.
InitFacade ==
    /\ pc = [p \in Procs |-> IF p = Ctor THEN "done" ELSE "idle"]
    /\ op = [p \in Procs |-> IF p = Ctor THEN "New" ELSE "none"]
    /\ step = [p \in Procs |-> 0]
    /\ mu = NoProc
    /\ http = [p \in Procs |-> "none"]
    /\ ea = [p \in Procs |-> NoEA]
    /\ got = [p \in Procs |-> NoGot]
    /\ mode = [p \in Procs |-> "none"]
    /\ newErr = "nil"
    /\ cache = NoCache
    /\ inflight = NoProc
    /\ lastFailed = FALSE
    /\ dec \in DecInputs
    /\ shutdowns = 0
    /\ dev = AnyDevice
    /\ last = NoLast

\* The decoder leaves the client as it is.
ClientUnchanged ==
    UNCHANGED <<pc, op, step, mu, http, ea, got, mode, newErr, cache,
                inflight, lastFailed, shutdowns, dev, last>>

ApplyGetProperty ==
    /\ dec.fn = "input"
    /\ \E id \in ReadIds :
        dec' = [dec EXCEPT !.fn = "getProperty", !.id = id,
                           !.out = GetProperty(dec.props, dec.perr, id)]
    /\ ClientUnchanged

ApplyStatus ==
    /\ dec.fn = "input"
    /\ dec' = [dec EXCEPT !.fn = "Status",
                          !.out = Status(dec.props, dec.perr)]
    /\ ClientUnchanged

ApplyEnabled ==
    /\ dec.fn = "input"
    /\ dec' = [dec EXCEPT !.fn = "Enabled",
                          !.out = Enabled(dec.props, dec.perr)]
    /\ ClientUnchanged

ApplyEnable ==
    /\ dec.fn = "input"
    /\ \E enable \in BOOLEAN :
        dec' = [dec EXCEPT !.fn = "Enable", !.enable = enable,
                           !.out = [val |-> Enable(enable), err |-> NoErr]]
    /\ ClientUnchanged

NextFacade ==
    \/ ApplyGetProperty
    \/ ApplyStatus
    \/ ApplyEnabled
    \/ ApplyEnable

SpecFacade == InitFacade /\ [][NextFacade]_vars

\* ================================================================ claims
\* An ensureAuthenticated call returned in the step just taken.
EADone == last.ea.err # "unset"

\* The goroutines inside ensureAuthenticated, between the first method()
\* and the return.
InEnsureAuthenticated(p) ==
    \/ pc[p] \in {"ea_req1", "ea_wait1", "ea_req2", "ea_wait2"}
    \/ pc[p] \in {"lg_send", "lg_wait"} /\ op[p] # "New"

\* C1: at most one ensureAuthenticated call sequence is in progress at any
\* time: while one goroutine is between its first method() and its return
\* (401 test, re-login, retry), no other goroutine is, and the one that is
\* holds c.mu.
C1_OneCallInProgress ==
    \A p \in Procs :
        InEnsureAuthenticated(p) =>
            /\ mu = p
            /\ \A q \in Procs \ {p} : ~InEnsureAuthenticated(q)

\* C1 witness: one goroutine is in its retried request after a re-login
\* while another waits for c.mu.
C1_Witness ==
    \E p \in Procs, q \in Procs :
        /\ p # q
        /\ pc[p] = "ea_wait2"
        /\ pc[q] = "ea_lock"

\* C2: all device HTTP traffic of the client is serialized: at most one
\* HTTP request (GET prop, POST of a property, GET info, login, logout) is
\* in flight in every reachable state, the constructor's login and the
\* logout of Shutdown included.
C2_AllTrafficSerialized ==
    Cardinality({p \in Procs : http[p] # "none"}) <= 1

\* C3: when the first method() returns 401, the re-login succeeds and the
\* retried method() gets a response, ensureAuthenticated returns that
\* second response without error after exactly two method() invocations
\* and one login.
C3_RetryAfterRelogin ==
    (EADone /\ last.ea.s1 = "401" /\ last.ea.lg = "nil"
            /\ last.ea.s2 \in Statuses) =>
        /\ last.ea.err = "nil"
        /\ last.ea.resp = last.ea.s2
        /\ last.ea.calls = 2
        /\ last.ea.logins = 1

\* C3 witness: a call returned 200 from its retry after a 401 and a
\* successful re-login.
C3_Witness ==
    /\ EADone
    /\ last.ea.s1 = "401"
    /\ last.ea.lg = "nil"
    /\ last.ea.s2 = "200"
    /\ last.ea.resp = "200"

\* C4: when the first method() returns 401 and the re-login fails,
\* ensureAuthenticated returns the login error and no response, and method()
\* is not invoked a second time.
C4_ReloginFailure ==
    (EADone /\ last.ea.s1 = "401" /\ last.ea.lg # "nil") =>
        /\ last.ea.lg \in {"login_transport", "login_status", "login_read"}
        /\ last.ea.err = last.ea.lg
        /\ last.ea.resp = "nil"
        /\ last.ea.calls = 1
        /\ last.ea.s2 = "none"
        /\ last.ea.logins = 1

\* C4 witness: a call returned after a 401 and a login the device refused.
C4_Witness ==
    /\ EADone
    /\ last.ea.s1 = "401"
    /\ last.ea.lg = "login_status"

\* C5: per ensureAuthenticated call method() is invoked at most twice and
\* login at most once; a 401 on the retry is returned to the caller with
\* no further login or invocation.
C5_AtMostOneRetry ==
    /\ \A p \in Procs : ea[p].calls <= 2 /\ ea[p].logins <= 1
    /\ last.ea.calls <= 2 /\ last.ea.logins <= 1
    /\ (EADone /\ last.ea.s2 = "401") =>
        /\ last.ea.resp = "401"
        /\ last.ea.err = "nil"
        /\ last.ea.calls = 2
        /\ last.ea.logins = 1

\* C5 witness: a call returned the 401 of its retry.
C5_Witness ==
    /\ EADone
    /\ last.ea.s1 = "401"
    /\ last.ea.s2 = "401"

\* C6: a transport error of the first method() is returned with no login
\* and no second invocation; a transport error of the retried method() is
\* returned with no further attempt.
C6_TransportErrorPropagates ==
    /\ (EADone /\ last.ea.s1 = "neterr") =>
        /\ last.ea.err = "transport"
        /\ last.ea.resp = "nil"
        /\ last.ea.calls = 1
        /\ last.ea.logins = 0
        /\ last.ea.s2 = "none"
    /\ (EADone /\ last.ea.s2 = "neterr") =>
        /\ last.ea.err = "transport"
        /\ last.ea.resp = "nil"
        /\ last.ea.calls = 2
        /\ last.ea.logins = 1

\* C6 witness: a call returned the transport error of its retry.
C6_Witness ==
    /\ EADone
    /\ last.ea.s2 = "neterr"
    /\ last.ea.err = "transport"

\* A getProperties call of p is executing.
GetPropertiesRunning(p) ==
    /\ op[p] = "getProperty"
    /\ pc[p] \in {"ea_lock", "ea_req1", "ea_wait1", "lg_send", "lg_wait",
                  "ea_req2", "ea_wait2", "gp_ret"}

\* p leaves the entry of getPropertiesG in this step.
EntersSnapshot(p) == pc[p] = "c_enter" /\ pc'[p] # "c_enter"

\* C7: callers of getPropertiesG that arrive while no snapshot is memoized
\* share one refresh: at most one getProperties call executes at a time,
\* every waiting caller is attached to the executing one, and when it
\* completes every waiting caller receives exactly its snapshot or error.
C7_SingleFlight ==
    /\ [](/\ Cardinality({p \in Procs : GetPropertiesRunning(p)}) <= 1
          /\ \A q \in Procs :
                pc[q] = "c_wait" =>
                    inflight # NoProc /\ GetPropertiesRunning(inflight))
    /\ [][\A p \in Procs :
            (pc[p] = "gp_ret" /\ pc'[p] = "gp_scan") =>
                /\ got'[p] = got[p]
                /\ \A q \in Procs :
                      pc[q] = "c_wait" =>
                          pc'[q] = "gp_scan" /\ got'[q] = got[p]]_vars

\* C7 witness: a caller that started the refresh and a caller that waited
\* for it hold the same snapshot.
C7_Witness ==
    \E p \in Procs, q \in Procs :
        /\ p # q
        /\ pc[p] = "gp_scan" /\ mode[p] = "miss"
        /\ pc[q] = "gp_scan" /\ mode[q] = "wait"
        /\ got[p] = got[q]
        /\ got[p].err = "nil"

\* C8: a getPropertiesG call made less than 5 seconds after a successful
\* refresh returns the memoized snapshot and issues no request; a call made
\* when 5 seconds or more have passed starts exactly one refresh, or joins
\* the one that is executing.
C8_MemoWithinInterval ==
    [][\A p \in Procs :
        /\ (EntersSnapshot(p) /\ cache.has /\ cache.age < 5) =>
              /\ pc'[p] = "gp_scan"
              /\ mode'[p] = "hit"
              /\ got'[p].val = cache.val
              /\ got'[p].err = "nil"
              /\ http' = http
              /\ inflight' = inflight
              /\ cache' = cache
        /\ (EntersSnapshot(p) /\ cache.has /\ cache.age >= 5) =>
              /\ mode'[p] # "hit"
              /\ IF inflight = NoProc
                 THEN inflight' = p /\ pc'[p] = "ea_lock"
                 ELSE inflight' = inflight /\ pc'[p] = "c_wait"]_vars

\* C8 witness: a caller was served the memoized snapshot four seconds after
\* the refresh.
C8_Witness ==
    \E p \in Procs :
        /\ pc[p] = "gp_scan"
        /\ mode[p] = "hit"
        /\ cache.age = 4
        /\ got[p].val = cache.val

\* C9: a failed refresh is not memoized: the getPropertiesG call that follows
\* a failed bulk read starts a new refresh (or joins one started after the
\* failure), and a caller served from the memo never receives an error.
C9_FailureNotCached ==
    /\ [](\A p \in Procs :
            (pc[p] = "gp_scan" /\ mode[p] = "hit") => got[p].err = "nil")
    /\ [][\A p \in Procs :
            (lastFailed /\ EntersSnapshot(p)) =>
                /\ mode'[p] \in {"miss", "wait"}
                /\ inflight = NoProc => (inflight' = p /\ pc'[p] = "ea_lock")]_vars

\* C9 witness: after a failed bulk read a caller has a new bulk read in
\* flight.
C9_Witness ==
    \E p \in Procs :
        /\ lastFailed
        /\ inflight = p
        /\ mode[p] = "miss"
        /\ http[p] = "GET prop"

\* C10: no failure is suppressed: when the authenticated call of a property
\* read, an info read or a property write ends on a response that is not a
\* 200, the operation returns an error.
C10_NoFailureSuppressed ==
    /\ (/\ last.res # "unset"
        /\ last.op \in {"getInfo", "setProperty", "Phases1p3p"}
        /\ last.ea.err = "nil"
        /\ last.ea.resp # "200") => last.res # "nil"
    /\ (/\ last.res # "unset"
        /\ last.op = "getProperty"
        /\ last.got.resp \in {"401", "500"}) => last.res # "nil"

\* ------------------------------------------------------------------ C11
\* The snapshot has an entry with this id.
Reports(props, id) == \E i \in 1..Len(props) : props[i].id = id

\* The value of the first entry of the snapshot with this id.
Reported(props, id) ==
    LET i == CHOOSE k \in 1..Len(props) :
                 /\ props[k].id = id
                 /\ \A j \in 1..(k - 1) : props[j].id # id
    IN props[i].value

\* Status() returned for a snapshot that was fetched and reports a state.
StatusDecoded ==
    /\ dec.fn = "Status"
    /\ dec.perr = NoErr
    /\ Reports(dec.props, state)

\* C11: the status mapping for every state code: 4 gives A; 7, 8, 9, 10,
\* 16, 17 and 36 give B; 11 gives C; 21, 26 and 34 give E, each without an
\* error; every other code gives the unhandled-status error, and then none
\* of A, B, C, E is reported.
C11_StatusMapping ==
    StatusDecoded =>
        LET c == Reported(dec.props, state)
            out == dec.out
        IN  /\ c = 4 => out = [val |-> "A", err |-> NoErr]
            /\ c \in {7, 8, 9, 10, 16, 17, 36} =>
                   out = [val |-> "B", err |-> NoErr]
            /\ c = 11 => out = [val |-> "C", err |-> NoErr]
            /\ c \in {21, 26, 34} => out = [val |-> "E", err |-> NoErr]
            /\ c \notin {4, 7, 8, 9, 10, 16, 17, 36, 11, 21, 26, 34} =>
                   /\ out.err.kind = "unhandled"
                   /\ out.err.val = c
                   /\ out.val \notin {"A", "B", "C", "E"}

\* C11 witness: Status() returned the unhandled-status error, and no
\* category, for the code 12 reported behind another entry.
C11_Witness ==
    /\ StatusDecoded
    /\ Len(dec.props) = 2
    /\ Reported(dec.props, state) = 12
    /\ dec.out.err.kind = "unhandled"
    /\ dec.out.val = "None"

\* ------------------------------------------------------------------ C12
\* What Enabled() answers when the device reports the current limit amps.
EnabledFor(amps) == Enabled(<<Entry(maxStationCurrent, amps)>>, NoErr)

\* C12: Enabled() is false when the reported current limit is 5 or less
\* and true when it is more than 5; Enable(false) writes exactly 5 and
\* Enable(true) exactly 16 to the current limit, so the value written by
\* disable reads back as disabled and the one written by enable as enabled.
C12_EnableThreshold ==
    /\ (/\ dec.fn = "Enabled"
        /\ dec.perr = NoErr
        /\ Reports(dec.props, maxStationCurrent)) =>
            /\ dec.out.err = NoErr
            /\ dec.out.val = (Reported(dec.props, maxStationCurrent) > 5)
    /\ dec.fn = "Enable" =>
            /\ dec.out.val.id = "2062_0"
            /\ dec.out.val.value = IF dec.enable THEN "16" ELSE "5"
            /\ EnabledFor(Atoi(dec.out.val.value)).err = NoErr
            /\ EnabledFor(Atoi(dec.out.val.value)).val = dec.enable

\* C12 witness: Enable(false) wrote the cutoff, which reads back as
\* disabled.
C12_Witness ==
    /\ dec.fn = "Enable"
    /\ ~dec.enable
    /\ Atoi(dec.out.val.value) = switchOffCurrent
    /\ ~EnabledFor(switchOffCurrent).val

\* ------------------------------------------------------------------ C18
\* C18: getProperty returns the value of the first entry of the snapshot
\* whose id equals the requested id, also when several entries share it,
\* and the not-found error naming the id when no entry has it; when the
\* snapshot fetch failed it returns that error and no entry's value.
C18_FirstMatch ==
    dec.fn = "getProperty" =>
        IF dec.perr # NoErr
        THEN dec.out = [val |-> "", err |-> dec.perr]
        ELSE IF Reports(dec.props, dec.id)
        THEN /\ dec.out.err = NoErr
             /\ dec.out.val = Reported(dec.props, dec.id)
        ELSE /\ dec.out.err = [kind |-> "notfound", id |-> dec.id, val |-> 0]
             /\ dec.out.val = ""

\* C18 witness: getProperty returned the first of two entries that share
\* the requested id and differ in value.
C18_Witness ==
    /\ dec.fn = "getProperty"
    /\ dec.perr = NoErr
    /\ \E i, j \in 1..Len(dec.props) :
        /\ i < j
        /\ dec.props[i].id = dec.id
        /\ dec.props[j].id = dec.id
        /\ dec.props[i].value # dec.props[j].value
        /\ dec.out.val = dec.props[i].value

\* ------------------------------------------------------------------ C13
\* Goroutine p takes a step of a property write in this transition.
WriteStepOf(p) ==
    /\ pc'[p] # pc[p]
    /\ op[p] = "setProperty" \/ op'[p] = "setProperty"

\* A property write returned in the step just taken, successful or failed.
WriteReturned == last.op = "setProperty" /\ last.res # "unset"

\* C13: a property write leaves the read cache as it is: no step of a
\* write, successful or failed, changes the memoized snapshot, its age or
\* the refresh in flight, and the write issues no GET; a read that reaches
\* the cache right after a write returned, within the interval, is served
\* the memoized snapshot as it was and sends no request.
C13_WriteKeepsCache ==
    [][/\ \A p \in Procs :
            WriteStepOf(p) =>
                /\ cache' = cache
                /\ inflight' = inflight
                /\ lastFailed' = lastFailed
                /\ http'[p] \notin {"GET prop", "GET info"}
       /\ \A q \in Procs :
            (/\ WriteReturned
             /\ CacheFresh
             /\ pc[q] = "c_enter"
             /\ pc'[q] # "c_enter") =>
                /\ pc'[q] = "gp_scan"
                /\ got'[q].val = cache.val
                /\ got'[q].err = "nil"
                /\ http' = http
                /\ cache' = cache]_vars

\* C13 witness: a write failed at the transport and returned while the
\* memoized snapshot is a few seconds old and a reader is about to ask the
\* cache.
C13_Witness ==
    /\ WriteReturned
    /\ last.res = "transport"
    /\ CacheFresh
    /\ cache.age > 0
    /\ \E q \in Procs : pc[q] = "c_enter"

\* ------------------------------------------------------------------ C14
\* Phases1p3p returned in the step being taken, from its write number st.
PhasesReturns(st) ==
    /\ last'.op = "Phases1p3p"
    /\ last'.res # "unset"
    /\ last'.step = st

\* C14: Phases1p3p writes the phase-switching enable property first and
\* the phase count second; the second write is issued only after the first
\* returned no error, and the error of the first is what Phases1p3p returns
\* otherwise; after the second write Phases1p3p returns its error or nil and
\* issues no further request: nothing is rolled back.
C14_PhasesTwoSteps ==
    [][\A p \in Procs :
        /\ (op[p] # "Phases1p3p" /\ op'[p] = "Phases1p3p") => step'[p] = 1
        /\ (op'[p] = "Phases1p3p" /\ http'[p] \notin {"none", "login"}) =>
                http'[p] = IF step'[p] = 1 THEN "POST 2185_0=1"
                           ELSE "POST 2189_0=?"
        /\ (op[p] = "Phases1p3p" /\ step'[p] # step[p]) =>
                \/ /\ step[p] = 1
                   /\ step'[p] = 2
                   /\ last'.p = p
                   /\ last'.ea.err = "nil"
                   /\ pc'[p] = "ea_lock"
                \/ /\ last'.p = p
                   /\ last'.res # "unset"
                   /\ pc'[p] = "idle"
                   /\ http'[p] = "none"
                   /\ step[p] \in {1, 2}
        /\ (last'.p = p /\ PhasesReturns(1)) =>
                /\ last'.res # "nil"
                /\ last'.res = last'.ea.err
        /\ (last'.p = p /\ PhasesReturns(2)) =>
                last'.res = IF last'.ea.err = "nil" THEN "nil"
                            ELSE last'.ea.err]_vars

\* C14 witness: the first write succeeded, the second failed at the
\* transport, and Phases1p3p returned that error.
C14_Witness ==
    /\ last.op = "Phases1p3p"
    /\ last.step = 2
    /\ last.ea.calls >= 1
    /\ last.res = "transport"

\* ------------------------------------------------------------------ C15
\* C15: every run of Shutdown, the second as the first, goes through all
\* its steps whatever their outcomes: the write of the current limit to 16
\* is attempted after the phase writes, failed or not, the logout is
\* attempted after it, failed or not, and Shutdown returns, without a
\* result, only once the logout has returned, with or without an error.
C15_ShutdownBestEffort ==
    [][\A p \in Procs :
        /\ (op[p] # "Shutdown" /\ op'[p] = "Shutdown") => step'[p] = 1
        /\ (op'[p] = "Shutdown" /\ http'[p] \notin {"none", "login"}) =>
                http'[p] = CASE step'[p] = 1 -> "POST 2185_0=1"
                             [] step'[p] = 2 -> "POST 2189_0=3"
                             [] step'[p] = 3 -> "POST 2062_0=16"
                             [] OTHER -> "logout"
        /\ (op[p] = "Shutdown" /\ op'[p] = "Shutdown"
                               /\ step'[p] # step[p]) =>
                /\ last'.p = p
                /\ last'.ea.calls >= 1
                /\ \/ step[p] \in {1, 2} /\ step'[p] = 3
                   \/ step[p] = 1 /\ step'[p] = 2 /\ last'.ea.err = "nil"
                   \/ step[p] = 3 /\ step'[p] = 4
                /\ step'[p] = 4 => pc'[p] = "lo_send"
        /\ (op[p] = "Shutdown" /\ op'[p] # "Shutdown") =>
                /\ step[p] = 4
                /\ http[p] = "logout"
                /\ last'.p = p
                /\ last'.op = "Shutdown"
                /\ last'.res = "void"
                /\ last'.lo # "unset"]_vars

\* C15 witness: the second run of Shutdown returned although its logout
\* failed at the transport.
C15_Witness ==
    /\ last.op = "Shutdown"
    /\ last.n = 2
    /\ last.res = "void"
    /\ last.lo = "logout_transport"

\* ------------------------------------------------------------------ C16
\* The goroutines whose login request is in flight.
LoggingIn == {p \in Procs : http[p] = "login"}

\* C16: at most one login attempt is in flight at any time, the login of
\* the constructor and the re-login of a Shutdown run by the hook included.
C16_OneLoginInFlight == Cardinality(LoggingIn) <= 1

\* ------------------------------------------------------------------ C17
\* C17: concurrent callers never log in twice for one session expiry:
\* against a device that accepts every login and every request made with a
\* valid session, the logins performed never outnumber the expiries, and the
\* call that was answered 401 is the one that logged in, once; with the one
\* expiry that makes exactly one login in total.
C17_OneLoginPerExpiry ==
    /\ dev.logins <= dev.expiries
    /\ (EADone /\ last.ea.s1 = "401") =>
            /\ last.ea.logins = 1
            /\ dev.logins >= 1
    /\ (EADone /\ last.ea.s1 # "401") => last.ea.logins = 0

\* C17 witness: the session expired once, one caller was answered 401,
\* logged in and had its retry accepted, while another caller's call waits
\* for the session lock.
C17_Witness ==
    /\ dev.expiries = 1
    /\ dev.logins = 1
    /\ EADone
    /\ last.ea.s1 = "401"
    /\ last.ea.resp = "200"
    /\ \E q \in Callers : q # last.p /\ pc[q] = "ea_lock"

\* ------------------------------------------------------------------ C20
\* C20: the response ensureAuthenticated returns is still usable: whenever
\* it returns a response, on the first attempt or on the retry, the body of
\* that response has not been closed.
C20_BodyOpenAtReturn ==
    (EADone /\ last.ea.err = "nil") => ~last.ea.closed

\* ------------------------------------------------------------------ C19
\* The positions inside ensureAuthenticated at which c.mu is held.
HoldsLockAt ==
    {"ea_req1", "ea_wait1", "lg_send", "lg_wait", "ea_req2", "ea_wait2"}

\* c.mu is held only inside ensureAuthenticated, and the refresh of the
\* snapshot is taken before c.mu, never after it.
LockDiscipline ==
    \A p \in Procs :
        /\ mu = p => pc[p] \in HoldsLockAt
        /\ pc[p] \in {"c_enter", "c_wait"} => mu # p
        /\ (mu = p /\ op[p] = "getProperty") => inflight = p
        /\ (inflight = p /\ pc[p] = "ea_lock") => mu # p

\* C19: the gateway cannot deadlock and every call finishes: c.mu is
\* released on every return of ensureAuthenticated, the cache's refresh and
\* c.mu are taken in that order only, and under a fair scheduler with a
\* transport that answers every request each read, write and shutdown call
\* that was started returns.
C19_EveryCallReturns ==
    /\ []LockDiscipline
    /\ \A p \in Clients : (pc[p] # "idle") ~> (pc[p] = "idle")

\* C19 witness: a reader holds c.mu for its refresh while a second reader
\* waits for that refresh and Shutdown waits for c.mu.
C19_Witness ==
    \E p, q \in Callers :
        /\ mu = p
        /\ inflight = p
        /\ pc[q] = "c_wait"
        /\ pc[Hook] = "ea_lock"

====
